---- MODULE Spec2Model ----
(***************************************************************************)
(* Model of the AWS Expert API (src/api.py): the FastAPI handlers          *)
(* process_query, health_check and root, the worker function               *)
(* run_crew_sync that each /query call submits to its own thread pool, and *)
(* the lazily created module-level crew_instance (Spec).  Three further    *)
(* specifications model SimplifiedAWSKnowledgeTool._run of tools/aws.py    *)
(* (SpecTool), parse_text_output of ui.py (SpecParse) and the chat session *)
(* of ui.py (SpecUi); each leaves the variables of the others alone.       *)
(*                                                                         *)
(* Python strings are modelled as sequences of atoms, so that "" is <<>>   *)
(* and an f-string is a concatenation (\o).  Optional[str] is modelled as  *)
(* a set with at most one element: None is {} and a present s is {s}.      *)
(*                                                                         *)
(* The crewai framework is external: what AWSCrew(), crew(), the agent and *)
(* task factories and kickoff() do is drawn nondeterministically (each may *)
(* return or raise), and whether the decorated class exposes a crew        *)
(* attribute (what hasattr probes) is fixed by the environment at start.   *)
(***************************************************************************)
EXTENDS Integers, Sequences, FiniteSets, TLC

\* ---------------------------------------------------------------- bounds
NReq == 2          \* number of POST /query calls in a run

Reqs == 1..NReq

\* ---------------------------------------------------------------- values
EmptyStr == <<>>
None == {}
Some(s) == {s}
TheVal(opt) == CHOOSE s \in opt : TRUE

Queries == {EmptyStr, <<"q1">>}
Topics == {None, Some(EmptyStr), Some(<<"t1">>)}
ErrMsgs == {<<"boom">>, <<"quota">>}

\* Python truthiness of an Optional[str]: None and "" are falsy.
Truthy(opt) == opt # None /\ TheVal(opt) # EmptyStr

\* Variant: topic falls back to the query only when it is None.
TopicOrQueryNoneOnly(topic, query) == IF topic # None THEN TheVal(topic) ELSE query

\* request.topic or request.query
TopicOrQuery(topic, query) == IF Truthy(topic) THEN TheVal(topic) ELSE query

\* inputs = {'topic': request.topic or request.query, 'query': request.query}
BuildInputs(req) ==
    [topic |-> TopicOrQuery(req.topic, req.query), query |-> req.query]

\* Variant: the exception is re-raised with its message unchanged.
WrapErrorBare(e) == e

\* f"Error running crew: {str(e)}"
WrapError(e) == <<"Error running crew: ">> \o e

\* str(result) of kickoff(inputs=inputs): the external pipeline's answer,
\* abstracted to a text determined by the inputs it was run on.
KickoffOutput(inp) == <<"answer:">> \o inp.topic \o <<"|">> \o inp.query

\* QueryResponse(success=True, result=result)
SuccessResponse(result) ==
    [status |-> 200, success |-> TRUE, result |-> result, error |-> None]

\* Variant: the failure envelope echoes the message in result too.
FailureResponseEchoing(msg) ==
    [status |-> 200, success |-> FALSE, result |-> msg, error |-> Some(msg)]

\* QueryResponse(success=False, result="", error=str(e))
FailureResponse(msg) ==
    [status |-> 200, success |-> FALSE, result |-> EmptyStr, error |-> Some(msg)]

\* The pipeline AWSCrew.crew() returns: the @agent / @task methods in
\* declaration order, Process.sequential.
CrewPipeline ==
    [strategy |-> "crew",
     agents |-> <<"aws_query_agent", "search_agent", "report_agent">>,
     tasks |-> <<"aws_query_task", "search_task", "report_task">>,
     process |-> "sequential"]

\* Variant: the hand-built pipeline lists the search task first.
ManualPipelineSwapped ==
    [strategy |-> "manual",
     agents |-> <<"aws_query_agent", "search_agent", "report_agent">>,
     tasks |-> <<"search_task", "aws_query_task", "report_task">>,
     process |-> "sequential"]

\* The pipeline run_crew_sync builds by hand in its else branch.
ManualPipeline ==
    [strategy |-> "manual",
     agents |-> <<"aws_query_agent", "search_agent", "report_agent">>,
     tasks |-> <<"aws_query_task", "search_task", "report_task">>,
     process |-> "sequential"]

NoPipeline == [strategy |-> "none", agents |-> <<>>, tasks |-> <<>>, process |-> "none"]
NoRequest == [query |-> EmptyStr, topic |-> None]
NoInputs == [topic |-> EmptyStr, query |-> EmptyStr]
NoResponse == [status |-> 0, success |-> FALSE, result |-> EmptyStr, error |-> None]
Pending == [state |-> "pending", value |-> EmptyStr]
NoProbe == [endpoint |-> "none", status |-> 0, body |-> "none"]

\* ---------------------------------------------------------------- state
VARIABLES
    crew_instance,  \* the module global: 0 is None, h > 0 the AWSCrew built by call h
    hasCrewAttr,    \* hasattr(AWSCrew(), 'crew'), fixed by the framework
    pc,             \* position of each /query call
    request,        \* the QueryRequest of each call
    inputs,         \* the inputs dict process_query built
    submits,        \* times run_crew_sync was submitted for the call
    sawNone,        \* the worker's reading of "crew_instance is None"
    handle,         \* the worker's local crew_instance (0 before it is bound)
    pipeline,       \* the Crew the worker kicked off
    kickInputs,     \* the inputs passed to kickoff
    kickoffs,       \* number of kickoff calls the worker made
    tried,          \* the dispatch branches the worker entered
    raised,         \* the message of the exception caught in run_crew_sync
    future,         \* outcome of the executor future the handler awaits
    response,       \* what the call answered
    lastProbe,      \* the answer to the last GET / or GET /health call
    overlapped,     \* history: some call was accepted while another was in flight
    toolLog,        \* SimplifiedAWSKnowledgeTool: the invocations of _run, in order
    netCalls,       \* SimplifiedAWSKnowledgeTool: network requests performed
    parseIn,        \* parse_text_output: the response_text it is called with
    parseOut,       \* parse_text_output: what it returned (<<>> before the call)
    environ,        \* ui: the provider keys set in os.environ
    sidebar,        \* ui: the provider keys typed into the sidebar (session_state)
    messages,       \* ui: st.session_state.messages
    notes_history,  \* ui: st.session_state.notes_history
    uiSubmits,      \* ui: presses of the Send button so far
    uiLast          \* ui: history of the last press of Send

vars == <<crew_instance, hasCrewAttr, pc, request, inputs, submits, sawNone,
          handle, pipeline, kickInputs, kickoffs, tried, raised, future,
          response, lastProbe, overlapped, toolLog, netCalls, parseIn, parseOut,
          environ, sidebar, messages, notes_history, uiSubmits, uiLast>>

workerVars == <<sawNone, handle, pipeline, kickInputs, kickoffs, tried, raised, future>>
probeVars == <<lastProbe>>
toolVars == <<toolLog, netCalls>>
parseVars == <<parseIn, parseOut>>
uiVars == <<environ, sidebar, messages, notes_history, uiSubmits, uiLast>>
nonApiVars == <<toolVars, parseVars, uiVars>>
apiVars == <<crew_instance, hasCrewAttr, pc, request, inputs, submits, response,
             workerVars, probeVars, overlapped>>

\* The API module after import: no crew instance, no call yet.
ApiInit ==
    /\ crew_instance = 0
    /\ hasCrewAttr \in BOOLEAN
    /\ pc = [r \in Reqs |-> "idle"]
    /\ request = [r \in Reqs |-> NoRequest]
    /\ inputs = [r \in Reqs |-> NoInputs]
    /\ submits = [r \in Reqs |-> 0]
    /\ sawNone = [r \in Reqs |-> FALSE]
    /\ handle = [r \in Reqs |-> 0]
    /\ pipeline = [r \in Reqs |-> NoPipeline]
    /\ kickInputs = [r \in Reqs |-> NoInputs]
    /\ kickoffs = [r \in Reqs |-> 0]
    /\ tried = [r \in Reqs |-> {}]
    /\ raised = [r \in Reqs |-> None]
    /\ future = [r \in Reqs |-> Pending]
    /\ response = [r \in Reqs |-> NoResponse]
    /\ lastProbe = NoProbe
    /\ overlapped = FALSE

\* A new SimplifiedAWSKnowledgeTool: it has no fields of its own.
ToolInit ==
    /\ toolLog = <<>>
    /\ netCalls = 0

\* parse_text_output has not been called.
ParseIdle ==
    /\ parseIn = <<"">>
    /\ parseOut = <<>>

\* A new Streamlit session: no message, no note, nothing typed in the sidebar.
UiFresh ==
    /\ sidebar = {}
    /\ messages = <<>>
    /\ notes_history = <<>>
    /\ uiSubmits = 0
    /\ uiLast = [accepted |-> FALSE, missing |-> {}, dispatched |-> FALSE,
                 shown |-> "nothing"]

\* The chat UI is not running.
UiIdle ==
    /\ environ = {}
    /\ UiFresh

Init ==
    /\ ApiInit
    /\ ToolInit
    /\ ParseIdle
    /\ UiIdle

\* ------------------------------------------------------- POST /query

\* The call has been accepted and not answered yet.
InFlight(r) == pc[r] \notin {"idle", "done"}

\* process_query up to the await: build the inputs and submit run_crew_sync
\* to a fresh ThreadPoolExecutor.
\* (Call ids are labels: calls are started in id order, which loses no
\* interleaving of the handlers and workers.)
ProcessQuery(r, q, t) ==
    /\ pc[r] = "idle"
    /\ \A s \in Reqs : s < r => pc[s] # "idle"
    /\ request' = [request EXCEPT ![r] = [query |-> q, topic |-> t]]
    /\ inputs' = [inputs EXCEPT ![r] = BuildInputs(request'[r])]
    /\ submits' = [submits EXCEPT ![r] = @ + 1]
    /\ pc' = [pc EXCEPT ![r] = "get"]
    /\ UNCHANGED <<crew_instance, hasCrewAttr, response>>
    /\ UNCHANGED workerVars
    /\ UNCHANGED probeVars
    /\ overlapped' = (overlapped \/ \E s \in Reqs \ {r} : InFlight(s))
    /\ UNCHANGED nonApiVars

\* The except clause of run_crew_sync: raise Exception(f"Error running crew: ...").
Fail(r, e) ==
    /\ raised' = [raised EXCEPT ![r] = Some(e)]
    /\ future' = [future EXCEPT ![r] = [state |-> "exception", value |-> WrapError(e)]]
    /\ pc' = [pc EXCEPT ![r] = "await"]

\* Variant: get_crew_instance builds a new AWSCrew on every call.
GetCheckNoReuse(r) ==
    /\ pc[r] = "get"
    /\ sawNone' = [sawNone EXCEPT ![r] = TRUE]
    /\ pc' = [pc EXCEPT ![r] = "construct"]
    /\ UNCHANGED <<crew_instance, hasCrewAttr, request, inputs, submits, handle,
                   pipeline, kickInputs, kickoffs, tried, raised, future, response>>
    /\ UNCHANGED probeVars
    /\ UNCHANGED overlapped
    /\ UNCHANGED nonApiVars

\* get_crew_instance: if crew_instance is None
GetCheck(r) ==
    /\ pc[r] = "get"
    /\ sawNone' = [sawNone EXCEPT ![r] = (crew_instance = 0)]
    /\ pc' = [pc EXCEPT ![r] = IF crew_instance = 0 THEN "construct" ELSE "ret"]
    /\ UNCHANGED <<crew_instance, hasCrewAttr, request, inputs, submits, handle,
                   pipeline, kickInputs, kickoffs, tried, raised, future, response>>
    /\ UNCHANGED probeVars
    /\ UNCHANGED overlapped
    /\ UNCHANGED nonApiVars

\* get_crew_instance: AWSCrew() raises
ConstructRaise(r, e) ==
    /\ pc[r] = "construct"
    /\ Fail(r, e)
    /\ UNCHANGED <<crew_instance, hasCrewAttr, request, inputs, submits, sawNone,
                   handle, pipeline, kickInputs, kickoffs, tried, response>>
    /\ UNCHANGED probeVars
    /\ UNCHANGED overlapped
    /\ UNCHANGED nonApiVars

\* get_crew_instance: crew_instance = AWSCrew(), the constructor returning
Construct(r) ==
    /\ pc[r] = "construct"
    /\ crew_instance' = r
    /\ pc' = [pc EXCEPT ![r] = "ret"]
    /\ UNCHANGED <<hasCrewAttr, request, inputs, submits, response>>
    /\ UNCHANGED workerVars
    /\ UNCHANGED probeVars
    /\ UNCHANGED overlapped
    /\ UNCHANGED nonApiVars

\* The worker starts kickoff(inputs=inputs) on pipeline p.
StartKickoff(r, p) ==
    /\ pipeline' = [pipeline EXCEPT ![r] = p]
    /\ kickInputs' = [kickInputs EXCEPT ![r] = inputs[r]]
    /\ kickoffs' = [kickoffs EXCEPT ![r] = @ + 1]
    /\ pc' = [pc EXCEPT ![r] = "kickoff"]

\* crew_instance = get_crew_instance(): the return reads the global again
BindHandle(r) == handle' = [handle EXCEPT ![r] = crew_instance]

\* if hasattr(crew_instance, 'crew'): crew_instance.crew().kickoff(inputs=inputs)
PrimaryDispatch(r) ==
    /\ pc[r] = "ret"
    /\ BindHandle(r)
    /\ hasCrewAttr
    /\ tried' = [tried EXCEPT ![r] = @ \cup {"crew"}]
    /\ StartKickoff(r, CrewPipeline)
    /\ UNCHANGED <<crew_instance, hasCrewAttr, request, inputs, submits, sawNone,
                   raised, future, response>>
    /\ UNCHANGED probeVars
    /\ UNCHANGED overlapped
    /\ UNCHANGED nonApiVars

\* Variant: when crew() raises, the worker goes on to the hand-built pipeline.
PrimaryRaiseThenManual(r, e) ==
    /\ pc[r] = "ret"
    /\ BindHandle(r)
    /\ hasCrewAttr
    /\ tried' = [tried EXCEPT ![r] = @ \cup {"crew", "manual"}]
    /\ StartKickoff(r, ManualPipeline)
    /\ UNCHANGED <<crew_instance, hasCrewAttr, request, inputs, submits, sawNone,
                   raised, future, response>>
    /\ UNCHANGED probeVars
    /\ UNCHANGED overlapped
    /\ UNCHANGED nonApiVars

\* ... crew_instance.crew() raises
PrimaryRaise(r, e) ==
    /\ pc[r] = "ret"
    /\ BindHandle(r)
    /\ hasCrewAttr
    /\ tried' = [tried EXCEPT ![r] = @ \cup {"crew"}]
    /\ Fail(r, e)
    /\ UNCHANGED <<crew_instance, hasCrewAttr, request, inputs, submits, sawNone,
                   pipeline, kickInputs, kickoffs, response>>
    /\ UNCHANGED probeVars
    /\ UNCHANGED overlapped
    /\ UNCHANGED nonApiVars

\* else: manual_crew = Crew(agents=[...], tasks=[...], process=Process.sequential);
\* manual_crew.kickoff(inputs=inputs)
ManualDispatch(r) ==
    /\ pc[r] = "ret"
    /\ BindHandle(r)
    /\ ~hasCrewAttr
    /\ tried' = [tried EXCEPT ![r] = @ \cup {"manual"}]
    /\ StartKickoff(r, ManualPipeline)
    /\ UNCHANGED <<crew_instance, hasCrewAttr, request, inputs, submits, sawNone,
                   raised, future, response>>
    /\ UNCHANGED probeVars
    /\ UNCHANGED overlapped
    /\ UNCHANGED nonApiVars

\* ... an agent or task factory, or Crew(...), raises
ManualRaise(r, e) ==
    /\ pc[r] = "ret"
    /\ BindHandle(r)
    /\ ~hasCrewAttr
    /\ tried' = [tried EXCEPT ![r] = @ \cup {"manual"}]
    /\ Fail(r, e)
    /\ UNCHANGED <<crew_instance, hasCrewAttr, request, inputs, submits, sawNone,
                   pipeline, kickInputs, kickoffs, response>>
    /\ UNCHANGED probeVars
    /\ UNCHANGED overlapped
    /\ UNCHANGED nonApiVars

\* kickoff returns: return str(result)
KickoffReturn(r) ==
    /\ pc[r] = "kickoff"
    /\ future' = [future EXCEPT ![r] =
                    [state |-> "result", value |-> KickoffOutput(kickInputs[r])]]
    /\ pc' = [pc EXCEPT ![r] = "await"]
    /\ UNCHANGED <<crew_instance, hasCrewAttr, request, inputs, submits, sawNone,
                   handle, pipeline, kickInputs, kickoffs, tried, raised, response>>
    /\ UNCHANGED probeVars
    /\ UNCHANGED overlapped
    /\ UNCHANGED nonApiVars

\* kickoff raises
KickoffRaise(r, e) ==
    /\ pc[r] = "kickoff"
    /\ Fail(r, e)
    /\ UNCHANGED <<crew_instance, hasCrewAttr, request, inputs, submits, sawNone,
                   handle, pipeline, kickInputs, kickoffs, tried, response>>
    /\ UNCHANGED probeVars
    /\ UNCHANGED overlapped
    /\ UNCHANGED nonApiVars

\* Variant: the handler lets the worker's exception escape (HTTP 500).
HandlerReturnPropagating(r) ==
    /\ pc[r] = "await"
    /\ response' = [response EXCEPT ![r] =
                      IF future[r].state = "result"
                      THEN SuccessResponse(future[r].value)
                      ELSE [status |-> 500, success |-> FALSE, result |-> EmptyStr,
                            error |-> None]]
    /\ pc' = [pc EXCEPT ![r] = "done"]
    /\ UNCHANGED <<crew_instance, hasCrewAttr, request, inputs, submits>>
    /\ UNCHANGED workerVars
    /\ UNCHANGED probeVars
    /\ UNCHANGED overlapped
    /\ UNCHANGED nonApiVars

\* Variant: the handler submits run_crew_sync again after a failure.
HandlerReturnRetrying(r) ==
    /\ pc[r] = "await"
    /\ IF future[r].state = "exception" /\ submits[r] < 2
       THEN /\ submits' = [submits EXCEPT ![r] = @ + 1]
            /\ future' = [future EXCEPT ![r] = Pending]
            /\ pc' = [pc EXCEPT ![r] = "get"]
            /\ UNCHANGED response
       ELSE /\ response' = [response EXCEPT ![r] =
                              IF future[r].state = "result"
                              THEN SuccessResponse(future[r].value)
                              ELSE FailureResponse(future[r].value)]
            /\ pc' = [pc EXCEPT ![r] = "done"]
            /\ UNCHANGED <<submits, future>>
    /\ UNCHANGED <<crew_instance, hasCrewAttr, request, inputs, sawNone, handle,
                   pipeline, kickInputs, kickoffs, tried, raised>>
    /\ UNCHANGED probeVars
    /\ UNCHANGED overlapped
    /\ UNCHANGED nonApiVars

\* Variant: the workers' outcomes go through one shared slot, so the handler
\* may pick up the outcome of any finished worker.
HandlerReturnShared(r) ==
    /\ pc[r] = "await"
    /\ \E s \in Reqs :
          /\ future[s].state # "pending"
          /\ response' = [response EXCEPT ![r] =
                            IF future[s].state = "result"
                            THEN SuccessResponse(future[s].value)
                            ELSE FailureResponse(future[s].value)]
    /\ pc' = [pc EXCEPT ![r] = "done"]
    /\ UNCHANGED <<crew_instance, hasCrewAttr, request, inputs, submits>>
    /\ UNCHANGED workerVars
    /\ UNCHANGED probeVars
    /\ UNCHANGED overlapped
    /\ UNCHANGED nonApiVars

\* process_query after the await: the envelope of the future's outcome.
HandlerReturn(r) ==
    /\ pc[r] = "await"
    /\ response' = [response EXCEPT ![r] =
                      IF future[r].state = "result"
                      THEN SuccessResponse(future[r].value)
                      ELSE FailureResponse(future[r].value)]
    /\ pc' = [pc EXCEPT ![r] = "done"]
    /\ UNCHANGED <<crew_instance, hasCrewAttr, request, inputs, submits>>
    /\ UNCHANGED workerVars
    /\ UNCHANGED probeVars
    /\ UNCHANGED overlapped
    /\ UNCHANGED nonApiVars

\* ------------------------------------------------- GET /health, GET /

HealthBody == [status |-> "healthy", message |-> "AWS Expert API is running"]
RootBody == [message |-> "Welcome to AWS Expert API", version |-> "1.0.0"]

\* Variant: the health check obtains the crew instance, building it if absent.
HealthCheckEager ==
    /\ lastProbe' = [endpoint |-> "/health", status |-> 200, body |-> HealthBody.status]
    /\ crew_instance' = IF crew_instance = 0 THEN 1 ELSE crew_instance
    /\ UNCHANGED <<hasCrewAttr, pc, request, inputs, submits, response>>
    /\ UNCHANGED workerVars
    /\ UNCHANGED overlapped
    /\ UNCHANGED nonApiVars

\* Variant: the pipeline runs on the event loop's own thread, so no probe is
\* served while a worker is between its start and its outcome.
HealthCheckBlocked ==
    /\ \A r \in Reqs : pc[r] \notin {"get", "construct", "ret", "kickoff"}
    /\ lastProbe' = [endpoint |-> "/health", status |-> 200, body |-> HealthBody.status]
    /\ UNCHANGED <<crew_instance, hasCrewAttr, pc, request, inputs, submits, response>>
    /\ UNCHANGED workerVars
    /\ UNCHANGED overlapped
    /\ UNCHANGED nonApiVars

\* GET /health
HealthCheck ==
    /\ lastProbe' = [endpoint |-> "/health", status |-> 200, body |-> HealthBody.status]
    /\ UNCHANGED <<crew_instance, hasCrewAttr, pc, request, inputs, submits, response>>
    /\ UNCHANGED workerVars
    /\ UNCHANGED overlapped
    /\ UNCHANGED nonApiVars

\* GET /
Root ==
    /\ lastProbe' = [endpoint |-> "/", status |-> 200, body |-> RootBody.message]
    /\ UNCHANGED <<crew_instance, hasCrewAttr, pc, request, inputs, submits, response>>
    /\ UNCHANGED workerVars
    /\ UNCHANGED overlapped
    /\ UNCHANGED nonApiVars

\* ------------------------------- SimplifiedAWSKnowledgeTool (tools/aws.py)
MaxToolCalls == 2     \* number of _run invocations in a run

ToolQueries == {<<"secure", "bucket">>, <<"launch", "EC2">>, <<"s3", "to", "rds">>}
ToolServices == {None, Some(EmptyStr), Some(<<"S3">>), Some(<<"glue">>), Some(<<"rds">>)}

\* A text is a sequence of atoms: the words of a query, the literal pieces of
\* a template.  The bullet character of the templates is written "*".
\* str.lower() and str.upper(), atom by atom
LowerAtom(a) ==
    CASE a = "EC2" -> "ec2"
      [] a = "S3" -> "s3"
      [] OTHER -> a

UpperAtom(a) ==
    CASE a = "ec2" -> "EC2"
      [] a = "s3" -> "S3"
      [] a = "rds" -> "RDS"
      [] a = "lambda" -> "LAMBDA"
      [] a = "vpc" -> "VPC"
      [] a = "iam" -> "IAM"
      [] a = "cloudformation" -> "CLOUDFORMATION"
      [] a = "cloudwatch" -> "CLOUDWATCH"
      [] a = "glue" -> "GLUE"
      [] OTHER -> a

Lower(str) == [i \in 1..Len(str) |-> LowerAtom(str[i])]
Upper(str) == [i \in 1..Len(str) |-> UpperAtom(str[i])]

\* k in str (substring test)
Contains(str, k) ==
    \E i \in 0..(Len(str) - Len(k)) : SubSeq(str, i + 1, i + Len(k)) = k

\* "=" * 50
Rule50 == "=================================================="

\* aws_services_info, in the order of the dict literal
AwsServicesInfo ==
    << [key |-> <<"ec2">>,
        description |-> "Amazon EC2 provides scalable compute capacity in the cloud"],
       [key |-> <<"s3">>,
        description |-> "Amazon S3 is object storage built to store and retrieve any amount of data"],
       [key |-> <<"rds">>,
        description |-> "Amazon RDS makes it easy to set up, operate, and scale a relational database"],
       [key |-> <<"lambda">>,
        description |-> "AWS Lambda lets you run code without provisioning or managing servers"],
       [key |-> <<"vpc">>,
        description |-> "Amazon VPC lets you provision a logically isolated section of AWS Cloud"],
       [key |-> <<"iam">>,
        description |-> "AWS IAM enables you to manage access to AWS services and resources securely"],
       [key |-> <<"cloudformation">>,
        description |-> "AWS CloudFormation gives you an easy way to model AWS resources"],
       [key |-> <<"cloudwatch">>,
        description |-> "Amazon CloudWatch is a monitoring service for AWS resources and applications"] >>

\* service_key in query_lower or (service and service.lower() == service_key)
Mentioned(entry, query, service) ==
    \/ Contains(Lower(query), entry.key)
    \/ (Truthy(service) /\ Lower(TheVal(service)) = entry.key)

\* The "* KEY: description\n" lines of the mentioned services
RECURSIVE ServiceLines(_)
ServiceLines(entries) ==
    IF entries = <<>> THEN <<>>
    ELSE <<"* ">> \o Upper(Head(entries).key) \o <<": ", Head(entries).description, "\n">>
         \o ServiceLines(Tail(entries))

BestPractices ==
    <<"AWS Best Practices:\n",
      "* Follow the Well-Architected Framework principles\n",
      "* Implement proper security measures (IAM, security groups)\n",
      "* Use infrastructure as code (CloudFormation/CDK)\n",
      "* Monitor and log your resources (CloudWatch)\n",
      "* Optimize costs with right-sizing and reserved instances\n\n">>

\* _generate_aws_guidance
GenerateAwsGuidance(query, service) ==
    LET mentioned_services ==
            SelectSeq(AwsServicesInfo, LAMBDA en : Mentioned(en, query, service))
    IN  <<"AWS Guidance for: ">> \o query \o <<"\n", Rule50, "\n\n">>
        \o (IF mentioned_services # <<>>
            THEN <<"Relevant AWS Services:\n">> \o ServiceLines(mentioned_services)
                 \o <<"\n">>
            ELSE <<>>)
        \o BestPractices
        \o <<"For specific implementation details, please refer to:\n",
             "* AWS Documentation: https://docs.aws.amazon.com/\n",
             "* AWS Architecture Center: https://aws.amazon.com/architecture/\n">>

\* _generate_search_results
GenerateSearchResults(query, service) ==
    <<"AWS Information for: ">> \o query \o <<"\n", Rule50, "\n\n">>
    \o (IF Truthy(service)
        THEN <<"Service Focus: ">> \o Upper(TheVal(service)) \o <<"\n\n">>
        ELSE <<>>)
    \o <<"Key Points:\n",
         "* This query relates to AWS services and best practices\n",
         "* For detailed information, refer to AWS Documentation\n",
         "* Consider security, cost optimization, and scalability\n\n",
         "Recommended Next Steps:\n",
         "* Check AWS Documentation for ">>
    \o (IF Truthy(service) THEN TheVal(service) ELSE <<"relevant services">>)
    \o <<"\n",
         "* Review AWS Well-Architected Framework principles\n",
         "* Consider using AWS CLI or SDK for implementation\n\n",
         "Additional Resources:\n",
         "* AWS Documentation: https://docs.aws.amazon.com/\n",
         "* AWS Well-Architected: https://aws.amazon.com/architecture/well-architected/\n">>

\* _search_aws_docs: the placeholder returns None
SearchAwsDocs(query, service) == None

\* _web_search_aws: no request is made; it returns _generate_search_results
WebSearchAws(query, service) == Some(GenerateSearchResults(query, service))

\* _run: the first of the three methods that yields a non-empty text
Run(query, service) ==
    LET aws_info == SearchAwsDocs(query, service)
        web_results == WebSearchAws(query, service)
    IN  IF Truthy(aws_info) THEN TheVal(aws_info)
        ELSE IF Truthy(web_results) THEN TheVal(web_results)
        ELSE GenerateAwsGuidance(query, service)

\* Variant: _run keeps a cache and marks a repeated answer as cached.
RunToolCaching(q, sv) ==
    /\ Len(toolLog) < MaxToolCalls
    /\ toolLog' = Append(toolLog,
                    [query |-> q, service |-> sv,
                     text |-> IF \E i \in DOMAIN toolLog :
                                    toolLog[i].query = q /\ toolLog[i].service = sv
                              THEN <<"(cached) ">> \o Run(q, sv)
                              ELSE Run(q, sv)])
    /\ UNCHANGED netCalls
    /\ UNCHANGED <<apiVars, parseVars, uiVars>>

\* One invocation of the tool: _run(query, service)
RunTool(q, sv) ==
    /\ Len(toolLog) < MaxToolCalls
    /\ toolLog' = Append(toolLog, [query |-> q, service |-> sv, text |-> Run(q, sv)])
    /\ UNCHANGED netCalls
    /\ UNCHANGED <<apiVars, parseVars, uiVars>>

ToolNext == \E q \in ToolQueries, sv \in ToolServices : RunTool(q, sv)

SpecTool == Init /\ [][ToolNext]_vars

\* ------------------------------------------- parse_text_output (ui.py)
MaxLines == 3         \* lines of a response_text

\* A text is the sequence of its lines (str.split('\n')); the empty text is
\* the one empty line <<"">>.  The lines are drawn from LineAtoms.
LineAtoms == {"# Summary", "## Details", "text", "see summary #1",
              "summary of costs", "", " ## Indented"}

RECURSIVE SeqsUpTo(_, _)
SeqsUpTo(S, n) ==
    IF n = 0 THEN {<<>>}
    ELSE LET shorter == SeqsUpTo(S, n - 1)
         IN  shorter \cup {Append(t, a) : t \in {u \in shorter : Len(u) = n - 1}, a \in S}

Texts == SeqsUpTo(LineAtoms, MaxLines) \ {<<>>}

\* 'summary' in line.lower()
MentionsSummary(line) == line \in {"# Summary", "see summary #1", "summary of costs"}

\* '##' in line or '#' in line
HasHash(line) ==
    line \in {"# Summary", "## Details", "see summary #1", " ## Indented", "## Indented"}

\* line.startswith('##') or line.startswith('#')
StartsWithHash(line) == line \in {"# Summary", "## Details", "## Indented"}

\* a line of whitespace only
IsBlank(line) == line \in {"", "   "}

\* str.lstrip() and str.rstrip() of one line
LStrip(line) ==
    CASE line = " ## Indented" -> "## Indented"
      [] line = " how s3 " -> "how s3 "
      [] line = "   " -> ""
      [] OTHER -> line

RStrip(line) ==
    CASE line = " how s3 " -> " how s3"
      [] line = "how s3 " -> "how s3"
      [] line = "   " -> ""
      [] OTHER -> line

StrStrip(line) == RStrip(LStrip(line))

RECURSIVE DropLeadingBlank(_)
DropLeadingBlank(lines) ==
    IF lines = <<>> THEN <<>>
    ELSE IF IsBlank(Head(lines)) THEN DropLeadingBlank(Tail(lines))
    ELSE lines

RECURSIVE DropTrailingBlank(_)
DropTrailingBlank(lines) ==
    IF lines = <<>> THEN <<>>
    ELSE IF IsBlank(lines[Len(lines)])
         THEN DropTrailingBlank(SubSeq(lines, 1, Len(lines) - 1))
    ELSE lines

\* str.strip() of a text: whitespace, line breaks included, goes from both ends
StripText(text) ==
    LET core == DropTrailingBlank(DropLeadingBlank(text))
        n == Len(core)
    IN  IF core = <<>> THEN <<"">>
        ELSE [i \in 1..n |->
                 IF i = 1 /\ i = n THEN StrStrip(core[i])
                 ELSE IF i = 1 THEN LStrip(core[i])
                 ELSE IF i = n THEN RStrip(core[i])
                 ELSE core[i]]

\* '\n'.join(filtered_lines)
Join(lines) == IF lines = <<>> THEN <<"">> ELSE lines

\* Variant: the loop tests for a header before it tests for a summary header.
RECURSIVE ParseLoopHeaderFirst(_, _)
ParseLoopHeaderFirst(lines, skip_section) ==
    IF lines = <<>> THEN <<>>
    ELSE LET line == Head(lines)
         IN  IF StartsWithHash(line)
             THEN <<line>> \o ParseLoopHeaderFirst(Tail(lines), FALSE)
             ELSE IF MentionsSummary(line) /\ HasHash(line)
             THEN ParseLoopHeaderFirst(Tail(lines), TRUE)
             ELSE (IF ~skip_section THEN <<line>> ELSE <<>>)
                  \o ParseLoopHeaderFirst(Tail(lines), skip_section)

\* The for loop of parse_text_output: filtered_lines for the lines left
RECURSIVE ParseLoop(_, _)
ParseLoop(lines, skip_section) ==
    IF lines = <<>> THEN <<>>
    ELSE LET line == Head(lines)
         IN  IF MentionsSummary(line) /\ HasHash(line)
             THEN ParseLoop(Tail(lines), TRUE)
             ELSE LET skip == IF StartsWithHash(line) THEN FALSE ELSE skip_section
                  IN  (IF ~skip THEN <<line>> ELSE <<>>) \o ParseLoop(Tail(lines), skip)

\* parse_text_output(response_text)
ParseTextOutput(response_text) ==
    LET cleaned_text == StripText(response_text)
        filtered_lines == ParseLoop(cleaned_text, FALSE)
    IN  StripText(Join(filtered_lines))

\* Some text is passed to parse_text_output.
ParseInit ==
    /\ parseIn \in Texts
    /\ parseOut = <<>>

\* The call parse_text_output(parseIn) returns.
Parse ==
    /\ parseOut = <<>>
    /\ parseOut' = ParseTextOutput(parseIn)
    /\ UNCHANGED parseIn
    /\ UNCHANGED <<apiVars, toolVars, uiVars>>

ParseNext == Parse

InitParse ==
    /\ ApiInit
    /\ ToolInit
    /\ ParseInit
    /\ UiIdle

SpecParse == InitParse /\ [][ParseNext]_vars

\* ------------------------------------------------------ chat UI (ui.py)
MaxTurns == 2         \* presses of the Send button in a session

Keys == {"SERPER", "Gemini"}

UiInputs == {"   ", " how s3 ", "s3 policy"}

\* str(result) of a crew run
CrewAnswers ==
    {<<"# Summary", "short", "## Details", "Use a bucket policy with least privilege">>,
     <<"ok">>}

\* What run_aws_crew returns when anything raised in it: the message and the
\* formatted stack trace.
CrewErrorText ==
    <<"Error running AWS Crew: boom", "", "Traceback:", "  File ui.py, in run_aws_crew">>

\* error_response of the handler's own except clause
SorryText == <<"Sorry, I encountered an error: boom">>

\* set_api_keys(): the keys taken from the sidebar or else from the environment
ActiveKeys == sidebar \cup environ

\* len(clean_line) > 20
LongerThan20(line) ==
    line \in {"Use a bucket policy with least privilege", "Error running AWS Crew: boom",
              "File ui.py, in run_aws_crew"}

\* The lines add_note_to_history accepts as the note
NoteLines(content) ==
    SelectSeq(content, LAMBDA line : /\ ~IsBlank(line)
                                     /\ ~StartsWithHash(StrStrip(line))
                                     /\ LongerThan20(StrStrip(line)))

\* add_note_to_history(content, user_input): the entry appended
NoteOf(content, user_input) ==
    [query |-> user_input,
     note |-> IF NoteLines(content) # <<>> THEN <<StrStrip(Head(NoteLines(content)))>>
              ELSE <<"Query about: ", user_input, "...">>]

Message(role, content) == [role |-> role, content |-> content]

\* A session starts with whatever keys load_dotenv found.
UiInit ==
    /\ environ \in SUBSET Keys
    /\ UiFresh

\* Variant: the handler's except clause shows the error without recording it.
SubmitDropOnError(user_input, outcome, answer) ==
    /\ uiSubmits < MaxTurns
    /\ uiSubmits' = uiSubmits + 1
    /\ UNCHANGED <<environ, sidebar>>
    /\ IF StrStrip(user_input) = ""
       THEN /\ UNCHANGED <<messages, notes_history>>
            /\ uiLast' = [accepted |-> FALSE, missing |-> Keys \ ActiveKeys,
                          dispatched |-> FALSE, shown |-> "nothing"]
       ELSE IF ActiveKeys = {}
       THEN /\ UNCHANGED <<messages, notes_history>>
            /\ uiLast' = [accepted |-> TRUE, missing |-> Keys \ ActiveKeys,
                          dispatched |-> FALSE, shown |-> "config_error"]
       ELSE LET user == Message("user", <<StrStrip(user_input)>>)
                raw_response == IF outcome = "crew_raised" THEN CrewErrorText ELSE answer
                cleaned_output == ParseTextOutput(raw_response)
            IN  IF outcome = "handler_raised"
                THEN /\ messages' = messages \o <<user>>
                     /\ UNCHANGED notes_history
                     /\ uiLast' = [accepted |-> TRUE, missing |-> Keys \ ActiveKeys,
                                   dispatched |-> TRUE, shown |-> "sorry"]
                ELSE /\ messages' = messages \o <<user, Message("assistant", cleaned_output)>>
                     /\ notes_history' =
                            Append(notes_history, NoteOf(cleaned_output, StrStrip(user_input)))
                     /\ uiLast' = [accepted |-> TRUE, missing |-> Keys \ ActiveKeys,
                                   dispatched |-> TRUE,
                                   shown |-> IF outcome = "crew_raised" THEN "traceback"
                                             ELSE "answer"]
    /\ UNCHANGED <<apiVars, toolVars, parseVars>>

\* A press of Send with user_input in the box (the block "Process user
\* input" up to st.rerun()).  outcome tells what the run met: the crew
\* returned answer, something raised inside run_aws_crew, or something raised
\* in the handler's own try block.
Submit(user_input, outcome, answer) ==
    /\ uiSubmits < MaxTurns
    /\ uiSubmits' = uiSubmits + 1
    /\ UNCHANGED <<environ, sidebar>>
    /\ IF StrStrip(user_input) = ""
       THEN /\ UNCHANGED <<messages, notes_history>>
            /\ uiLast' = [accepted |-> FALSE, missing |-> Keys \ ActiveKeys,
                          dispatched |-> FALSE, shown |-> "nothing"]
       ELSE IF ActiveKeys = {}
       THEN /\ UNCHANGED <<messages, notes_history>>
            /\ uiLast' = [accepted |-> TRUE, missing |-> Keys \ ActiveKeys,
                          dispatched |-> FALSE, shown |-> "config_error"]
       ELSE LET user == Message("user", <<StrStrip(user_input)>>)
                raw_response == IF outcome = "crew_raised" THEN CrewErrorText ELSE answer
                cleaned_output == ParseTextOutput(raw_response)
            IN  IF outcome = "handler_raised"
                THEN /\ messages' = messages \o <<user, Message("assistant", SorryText)>>
                     /\ UNCHANGED notes_history
                     /\ uiLast' = [accepted |-> TRUE, missing |-> Keys \ ActiveKeys,
                                   dispatched |-> TRUE, shown |-> "sorry"]
                ELSE /\ messages' = messages \o <<user, Message("assistant", cleaned_output)>>
                     /\ notes_history' =
                            Append(notes_history, NoteOf(cleaned_output, StrStrip(user_input)))
                     /\ uiLast' = [accepted |-> TRUE, missing |-> Keys \ ActiveKeys,
                                   dispatched |-> TRUE,
                                   shown |-> IF outcome = "crew_raised" THEN "traceback"
                                             ELSE "answer"]
    /\ UNCHANGED <<apiVars, toolVars, parseVars>>

\* The Clear Chat History button
ClearChat ==
    /\ messages # <<>>
    /\ messages' = <<>>
    /\ UNCHANGED <<environ, sidebar, notes_history, uiSubmits, uiLast>>
    /\ UNCHANGED <<apiVars, toolVars, parseVars>>

\* The Clear Notes button, drawn only while there are notes
ClearNotes ==
    /\ notes_history # <<>>
    /\ notes_history' = <<>>
    /\ UNCHANGED <<environ, sidebar, messages, uiSubmits, uiLast>>
    /\ UNCHANGED <<apiVars, toolVars, parseVars>>

\* The user edits the key fields of the sidebar; the rerun calls set_api_keys,
\* which copies every key it finds into os.environ.
SetSidebarKeys(ks) ==
    /\ ks # sidebar
    /\ sidebar' = ks
    /\ environ' = environ \cup ks
    /\ UNCHANGED <<messages, notes_history, uiSubmits, uiLast>>
    /\ UNCHANGED <<apiVars, toolVars, parseVars>>

UiNext ==
    \/ \E user_input \in UiInputs, answer \in CrewAnswers,
          outcome \in {"returned", "crew_raised", "handler_raised"} :
           Submit(user_input, outcome, answer)
    \/ ClearChat
    \/ ClearNotes
    \/ \E ks \in SUBSET Keys : SetSidebarKeys(ks)

InitUi ==
    /\ ApiInit
    /\ ToolInit
    /\ ParseIdle
    /\ UiInit

SpecUi == InitUi /\ [][UiNext]_vars

\* ------------------------------------------------------ specification
Next ==
    \/ \E r \in Reqs, q \in Queries, t \in Topics : ProcessQuery(r, q, t)
    \/ \E r \in Reqs : GetCheck(r)
    \/ \E r \in Reqs : Construct(r)
    \/ \E r \in Reqs, e \in ErrMsgs : ConstructRaise(r, e)
    \/ \E r \in Reqs : PrimaryDispatch(r)
    \/ \E r \in Reqs, e \in ErrMsgs : PrimaryRaise(r, e)
    \/ \E r \in Reqs : ManualDispatch(r)
    \/ \E r \in Reqs, e \in ErrMsgs : ManualRaise(r, e)
    \/ \E r \in Reqs : KickoffReturn(r)
    \/ \E r \in Reqs, e \in ErrMsgs : KickoffRaise(r, e)
    \/ \E r \in Reqs : HandlerReturn(r)
    \/ HealthCheck
    \/ Root

Spec == Init /\ [][Next]_vars

\* ------------------------------------------------------------- claims
Done(r) == pc[r] = "done"
Started(r) == pc[r] # "idle"
WorkerFailed(r) == raised[r] # None

\* C1: every QueryResponse POST /query produced satisfies the envelope
\* invariant: success implies error is None, and not success implies result
\* is the empty string.
C1_EnvelopeInvariant ==
    \A r \in Reqs :
        (Done(r) /\ response[r].status = 200) =>
            /\ response[r].success => response[r].error = None
            /\ ~response[r].success => response[r].result = EmptyStr

\* A failed call and a successful call have both been answered.
C1_Witness ==
    \E r, s \in Reqs :
        /\ Done(r) /\ response[r].success /\ response[r].result # EmptyStr
        /\ Done(s) /\ ~response[s].success /\ response[s].error # None

\* C2: every answered POST /query has HTTP status 200, and a call whose
\* worker raised (while getting the crew instance or running the pipeline)
\* is answered with success=false and error set to the raised message.
C2_AlwaysHttp200 ==
    \A r \in Reqs :
        Done(r) =>
            /\ response[r].status = 200
            /\ WorkerFailed(r) =>
                 /\ ~response[r].success
                 /\ future[r].state = "exception"
                 /\ response[r].error = Some(future[r].value)

\* Answered calls whose failure came from AWSCrew() and from kickoff().
C2_Witness ==
    \E r, s \in Reqs :
        /\ Done(r) /\ WorkerFailed(r) /\ tried[r] = {} /\ response[r].status = 200
        /\ Done(s) /\ WorkerFailed(s) /\ kickoffs[s] = 1 /\ response[s].status = 200

\* C3 (as the specification states it): a call whose query is the empty
\* string never reaches run_crew_sync nor a kickoff.
C3_EmptyQueryRejected ==
    \A r \in Reqs :
        (Started(r) /\ request[r].query = EmptyStr) =>
            submits[r] = 0 /\ kickoffs[r] = 0

\* C4 (as the specification states it): for a non-empty query the inputs carry
\* the query, and the topic is the request's topic whenever one is given and
\* the query when it is omitted.
C4_TopicGivenIsKept ==
    \A r \in Reqs :
        (Started(r) /\ request[r].query # EmptyStr) =>
            /\ inputs[r].query = request[r].query
            /\ request[r].topic # None => inputs[r].topic = TheVal(request[r].topic)
            /\ request[r].topic = None => inputs[r].topic = request[r].query

\* C4 (amended): for a non-empty query the inputs carry the query, and the
\* topic is the request's topic when one is given and is not the empty string,
\* and the query when the topic is omitted or is the empty string.
C4_TopicDefaultsToQuery ==
    \A r \in Reqs :
        (Started(r) /\ request[r].query # EmptyStr) =>
            /\ inputs[r].query = request[r].query
            /\ (request[r].topic \notin {None, Some(EmptyStr)})
                  => inputs[r].topic = TheVal(request[r].topic)
            /\ (request[r].topic \in {None, Some(EmptyStr)})
                  => inputs[r].topic = request[r].query

\* Calls with a topic given, with the topic omitted and with an empty topic
\* have built their inputs.
C4_Witness ==
    \E r, s \in Reqs :
        /\ Started(r) /\ request[r].query # EmptyStr /\ request[r].topic = Some(<<"t1">>)
        /\ inputs[r].topic = <<"t1">>
        /\ Started(s) /\ request[s].query # EmptyStr /\ request[s].topic = Some(EmptyStr)
        /\ inputs[s].topic = request[s].query

\* C5: each POST /query call submits run_crew_sync exactly once, and the
\* worker performs at most one kickoff, also when it failed (no retry).
C5_OneAdapterCall ==
    \A r \in Reqs :
        /\ Started(r) => submits[r] = 1
        /\ ~Started(r) => submits[r] = 0
        /\ kickoffs[r] <= 1

\* A call whose kickoff raised has been answered after one submission and
\* one kickoff.
C5_Witness ==
    \E r \in Reqs :
        Done(r) /\ WorkerFailed(r) /\ ~response[r].success
        /\ submits[r] = 1 /\ kickoffs[r] = 1

\* C6 (as the specification states it): a call whose primary branch raised
\* is reported as failed only after the manual-construction branch was tried.
C6_FallbackAfterPrimaryRaise ==
    \A r \in Reqs :
        (Done(r) /\ WorkerFailed(r) /\ "crew" \in tried[r]) => "manual" \in tried[r]

\* C6 (amended): when the primary branch of run_crew_sync raises, the call is
\* reported as failed without the manual-construction branch being tried; the
\* manual branch is entered only when the handle has no crew attribute, so no
\* call tries both branches.
C6_NoFallbackAfterPrimaryRaise ==
    \A r \in Reqs :
        /\ Cardinality(tried[r]) <= 1
        /\ "manual" \in tried[r] => ~hasCrewAttr
        /\ (Done(r) /\ WorkerFailed(r) /\ "crew" \in tried[r]) =>
              /\ ~response[r].success
              /\ "manual" \notin tried[r]
              /\ pipeline[r].strategy # "manual"

\* The primary branch raised and the call has been answered as failed.
C6_Witness ==
    \E r \in Reqs :
        /\ Done(r) /\ WorkerFailed(r) /\ tried[r] = {"crew"}
        /\ ~response[r].success /\ hasCrewAttr

\* C7: a call that reached a kickoff used exactly one strategy, chosen by
\* whether the handle has a crew attribute: either the pipeline crew()
\* returned, or a pipeline built from the agents and the tasks in the order
\* query, search, report with sequential processing; each is run with the
\* inputs process_query built.
C7_OneStrategyPerCall ==
    \A r \in Reqs :
        kickoffs[r] > 0 =>
            /\ kickInputs[r] = inputs[r]
            /\ hasCrewAttr =>
                  /\ tried[r] = {"crew"}
                  /\ pipeline[r].strategy = "crew"
            /\ ~hasCrewAttr =>
                  /\ tried[r] = {"manual"}
                  /\ pipeline[r].strategy = "manual"
                  /\ pipeline[r].agents =
                        <<"aws_query_agent", "search_agent", "report_agent">>
                  /\ pipeline[r].tasks =
                        <<"aws_query_task", "search_task", "report_task">>
                  /\ pipeline[r].process = "sequential"

\* A call on a handle without a crew attribute was answered from the
\* hand-built pipeline.
C7_Witness ==
    \E r \in Reqs :
        /\ ~hasCrewAttr /\ Done(r) /\ response[r].success
        /\ pipeline[r].strategy = "manual" /\ kickInputs[r] = BuildInputs(request[r])

\* C8 (as the specification states it): the error of a failed call is
\* "Error running pipeline: " followed by the original message.
C8_PipelinePrefix ==
    \A r \in Reqs :
        (Done(r) /\ WorkerFailed(r)) =>
            response[r].error = Some(<<"Error running pipeline: ">> \o TheVal(raised[r]))

\* C8 (amended): any exception raised in run_crew_sync is re-raised with the
\* prefix "Error running crew: " before its message, and that text is the
\* error field of the response.
C8_CrewPrefix ==
    \A r \in Reqs :
        /\ (future[r].state = "exception") <=> WorkerFailed(r)
        /\ WorkerFailed(r) =>
              future[r].value = <<"Error running crew: ">> \o TheVal(raised[r])
        /\ (Done(r) /\ WorkerFailed(r)) =>
              /\ ~response[r].success
              /\ response[r].error =
                    Some(<<"Error running crew: ">> \o TheVal(raised[r]))

\* Failures raised in a dispatch branch (before and during the kickoff) have
\* been answered.
C8_Witness ==
    \E r, s \in Reqs :
        /\ Done(r) /\ WorkerFailed(r) /\ tried[r] # {} /\ kickoffs[r] = 0
        /\ Done(s) /\ WorkerFailed(s) /\ kickoffs[s] = 1
        /\ raised[r] # raised[s]

\* C9: a step that serves GET /health or GET / leaves crew_instance as it
\* was, and every answer of GET /health is 200 with status "healthy".
C9_HealthIsStaticAndLazy ==
    [][lastProbe' # lastProbe =>
          /\ crew_instance' = crew_instance
          /\ lastProbe'.endpoint = "/health" =>
                (lastProbe'.status = 200 /\ lastProbe'.body = "healthy")]_vars

\* GET /health was answered while a call had failed and the singleton had
\* never been built.
C9_Witness ==
    /\ lastProbe.endpoint = "/health" /\ lastProbe.body = "healthy"
    /\ crew_instance = 0
    /\ \E r \in Reqs : Done(r) /\ ~response[r].success

\* C10: whatever the interleaving, the answer of a call carries the output of
\* the pipeline run on the inputs of that call's own request, or the wrapped
\* message of the exception raised in that call's own worker.
C10_OwnResult ==
    \A r \in Reqs :
        Done(r) =>
            IF response[r].success
            THEN /\ ~WorkerFailed(r)
                 /\ response[r].result =
                       <<"answer:">> \o inputs[r].topic \o <<"|">> \o request[r].query
                 /\ kickInputs[r].query = request[r].query
            ELSE /\ WorkerFailed(r)
                 /\ response[r].error = Some(WrapError(TheVal(raised[r])))

\* Two calls that raced through get_crew_instance (both saw None) with
\* different queries have both been answered successfully.
C10_Witness ==
    \E r, s \in Reqs :
        /\ r # s /\ Done(r) /\ Done(s)
        /\ response[r].success /\ response[s].success
        /\ sawNone[r] /\ sawNone[s]
        /\ request[r].query # request[s].query
        /\ response[r].result # response[s].result

\* C11: while the kickoff of one call has not returned, that call stays
\* unanswered (nothing but the kickoff's own return or raise ends it: there is
\* no timeout), and the acceptance loop is not blocked: GET /health and GET /
\* can be served, a new POST /query can be accepted, and every other call can
\* take its next step and be answered.
C11_HungCallDoesNotBlock ==
    \A r \in Reqs :
        /\ pc[r] = "kickoff" =>
              /\ future[r] = Pending
              /\ response[r] = NoResponse
              /\ ENABLED HealthCheck
              /\ ENABLED Root
              /\ \A s \in Reqs \ {r} :
                    /\ (pc[s] = "idle" /\ \A u \in Reqs : u < s => pc[u] # "idle")
                          => ENABLED ProcessQuery(s, <<"q1">>, None)
                    /\ pc[s] = "get" => ENABLED GetCheck(s)
                    /\ pc[s] = "construct" => ENABLED Construct(s)
                    /\ pc[s] = "ret" => ENABLED (PrimaryDispatch(s) \/ ManualDispatch(s))
                    /\ pc[s] = "kickoff" => ENABLED KickoffReturn(s)
                    /\ pc[s] = "await" => ENABLED HandlerReturn(s)
        /\ (pc[r] \in {"await", "done"} /\ kickoffs[r] = 1) =>
              /\ future[r].state # "pending"
              /\ future[r].state = "exception" => raised[r] \in {Some(e) : e \in ErrMsgs}

\* The first call is still in its kickoff while a call accepted after it has
\* been answered and GET /health has been served.
C11_Witness ==
    /\ NReq >= 2
    /\ pc[1] = "kickoff" /\ response[1] = NoResponse
    /\ Done(2) /\ response[2].success
    /\ lastProbe.endpoint = "/health"

\* The call built an AWSCrew: it saw crew_instance as None and AWSCrew() returned.
Built(r) == sawNone[r] /\ (pc[r] = "ret" \/ tried[r] # {})

\* get_crew_instance has returned to the call's worker.
GotHandle(r) == tried[r] # {}

\* C12: every call whose get_crew_instance returned holds a non-None handle,
\* an AWSCrew some call built; while no two calls have overlapped at most one
\* AWSCrew has been built and every call holds that one; and once
\* crew_instance is not None no step sets it back to None.
C12_LazySingleton ==
    /\ [](\A r \in Reqs :
            GotHandle(r) => (handle[r] \in Reqs /\ Built(handle[r])))
    /\ [](crew_instance # 0 => Built(crew_instance))
    /\ [](~overlapped =>
            /\ Cardinality({r \in Reqs : Built(r)}) <= 1
            /\ \A r, s \in Reqs :
                  (GotHandle(r) /\ GotHandle(s)) => handle[r] = handle[s])
    /\ [][crew_instance # 0 => crew_instance' # 0]_vars

\* Two overlapping first calls both saw None and both built an AWSCrew; each
\* was answered from a non-None handle.
C12_Witness ==
    \E r, s \in Reqs :
        /\ r # s /\ overlapped
        /\ Built(r) /\ Built(s)
        /\ Done(r) /\ Done(s)
        /\ handle[r] # 0 /\ handle[s] # 0
        /\ crew_instance # 0

Range(f) == {f[i] : i \in DOMAIN f}

C14_TextFromServiceMapping ==
    \A i \in DOMAIN toolLog :
        /\ \A k \in DOMAIN AwsServicesInfo :
              Mentioned(AwsServicesInfo[k], toolLog[i].query, toolLog[i].service)
                  => AwsServicesInfo[k].description \in Range(toolLog[i].text)
        /\ \A k \in DOMAIN BestPractices : BestPractices[k] \in Range(toolLog[i].text)

\* C15: a press of Send with a non-blank input while the LLM key or the
\* web-search key is missing dispatches no crew run and shows the
\* configuration error, never a stack trace.
C15_MissingKeyFailsClosed ==
    (uiLast.accepted /\ uiLast.missing # {})
        => (~uiLast.dispatched /\ uiLast.shown = "config_error")

IsUser(i) == i % 2 = 1

\* C16: the messages list alternates user and assistant entries and has even
\* length; it changes only by being emptied or by gaining one user message
\* and, right after it, one assistant message, and it gains them only on a
\* press of Send with a non-blank input and at least one key configured.
C16_MessagesAlternate ==
    /\ [](/\ Len(messages) % 2 = 0
          /\ \A i \in DOMAIN messages :
                messages[i].role = IF IsUser(i) THEN "user" ELSE "assistant")
    /\ [][messages' # messages =>
            \/ messages' = <<>>
            \/ /\ Len(messages') = Len(messages) + 2
               /\ SubSeq(messages', 1, Len(messages)) = messages
               /\ messages'[Len(messages) + 1].role = "user"
               /\ messages'[Len(messages) + 2].role = "assistant"
               /\ ~IsBlank(messages'[Len(messages) + 1].content[1])
               /\ uiSubmits' = uiSubmits + 1
               /\ uiLast'.accepted
               /\ uiLast'.missing # Keys]_vars

\* Two exchanges stand in the list, after a run that answered and a run that
\* failed, the chat having been cleared before.
C16_Witness ==
    /\ Len(messages) = 2
    /\ messages[1].role = "user"
    /\ messages[2] = Message("assistant", SorryText)
    /\ uiSubmits = 2
    /\ Len(notes_history) = 1

\* A summary header: a line with a '#' that mentions 'summary'
SummaryHeader(line) == MentionsSummary(line) /\ HasHash(line)

\* The line that ends a summary section
SectionEnd(line) == StartsWithHash(line) /\ ~MentionsSummary(line)

\* Line i of lines is a summary header or lies in a summary section.
InSummarySection(lines, i) ==
    \E j \in 1..i :
        /\ SummaryHeader(lines[j])
        /\ \A k \in (j + 1)..i : ~SectionEnd(lines[k])

\* The lines outside every summary section, in their order
OtherLines(lines) ==
    LET kept == {i \in DOMAIN lines : ~InSummarySection(lines, i)}
    IN  [n \in 1..Cardinality(kept) |->
            lines[CHOOSE i \in kept : Cardinality({j \in kept : j < i}) = n - 1]]

\* C17 (as the specification states it): the output of parse_text_output is
\* the input without its summary sections, all other lines kept in order.
C17_SummaryRemovedOthersKept ==
    parseOut # <<>> => parseOut = Join(OtherLines(parseIn))

\* C17 (amended): the output of parse_text_output is the input without its
\* summary sections, all other lines kept in order, except that the
\* whitespace and the blank lines at the two ends of what is left are
\* stripped.
C17_SummaryRemovedThenStripped ==
    parseOut # <<>> => parseOut = StripText(Join(OtherLines(parseIn)))

\* A text with a summary section closed by the next header was parsed.
C17_Witness ==
    /\ parseIn = <<"# Summary", "text", "## Details">>
    /\ parseOut = <<"## Details">>

====
